---- MODULE Spec2Model ----
(***************************************************************************)
(* Model of geonode/contrib/datatables/column_checker.py (Python 2):       *)
(* ColumnChecker, which reads the Postgres data types of a layer column    *)
(* and a DataTable column and decides whether the two may be joined.       *)
(*                                                                         *)
(* Python values are modelled as strings; None is the sentinel string      *)
(* None below, which is no table, column or type name.  A call's outcome   *)
(* is a record: kind "return" with the returned pair (ok, val), or kind    *)
(* "raise" with the exception that leaves the call in val.  ext is the     *)
(* sequence of calls made on psycopg2 (the external metadata source).      *)
(*                                                                         *)
(* The module is Python 2 (e[0] on an exception, print statements in its   *)
(* docstring), and exceptions are modelled with Python 2's rules.          *)
(*                                                                         *)
(* Spec runs one caller through whole calls of the two join checks;        *)
(* SpecConc runs several callers through get_column_datatype and           *)
(* alter_column_to_var one statement at a time.                            *)
(***************************************************************************)
EXTENDS Integers, Sequences, FiniteSets, TLC

VARIABLES env, checker, last, pc, args, conn, exc, res, ext, sessions

vars == <<env, checker, last, pc, args, conn, exc, res, ext, sessions>>
seqVars == <<checker, last>>
concVars == <<pc, args, conn, exc, res, ext, sessions>>

NumCallers == 2

\* ------------------------------------------------------------------ values

None == "<None>"

\* fetchone() returned None: the query matched no row
NoRow == "<no row>"

POSTGRES_CHAR_DATATYPES ==
    {"character varying", "varchar", "character", "char", "text"}

POSTGRES_NUMERIC_DATATYPES ==
    {"smallint", "integer", "bigint", "decimal", "numeric", "real",
     "double precision", "smallserial", "serial", "bigserial"}

\* Types of information_schema.columns.data_type in neither tuple
OtherDataTypes == {"uuid", "USER-DEFINED"}

\* What row[0] of a fetched row can be: a type string, or None (SQL NULL)
DataTypes ==
    POSTGRES_CHAR_DATATYPES \cup POSTGRES_NUMERIC_DATATYPES
        \cup OtherDataTypes \cup {None}

\* The layer (target) table and the DataTable a checker is built for
TargetTables == {"parcels"}
DtTables == {"census"}
TableNames == TargetTables \cup DtTables
AttrNames == {"geoid"}
ColRefs == TableNames \X AttrNames

\* The datastore (env): can a connection be made (up), does a statement
\* run (exec), and the data_type of each column in information_schema
\* (meta, a function on ColRefs to DataTypes or NoRow).
\* The checker: the four arguments ColumnChecker.__init__ stored.

\* '%s' % x and '{0}'.format(x)
py_str(x) == IF x = None THEN "None" ELSE x

Return(ok, val, calls) ==
    [kind |-> "return", ok |-> ok, val |-> val, ext |-> calls]

Raise(exception, calls) ==
    [kind |-> "raise", ok |-> FALSE, val |-> exception, ext |-> calls]

\* ------------------------------------------------------- pure helpers

\* Faulty variant: a character list that lacks two of the spellings
is_character_column_few(data_type) ==
    IF data_type = None THEN FALSE
    ELSE data_type \in {"varchar", "char", "text"}

is_character_column(data_type) ==
    IF data_type = None THEN FALSE
    ELSE IF data_type \in POSTGRES_CHAR_DATATYPES THEN TRUE
    ELSE FALSE

is_numeric_column(data_type) ==
    IF data_type = None THEN FALSE
    ELSE IF data_type \in POSTGRES_NUMERIC_DATATYPES THEN TRUE
    ELSE FALSE

\* Faulty variant: whatever is not numeric is labelled a character
get_type_text_numeric_first(data_type) ==
    IF data_type = None THEN None
    ELSE IF is_numeric_column(data_type) THEN "a \"numeric\""
    ELSE "a \"character\""

get_type_text_char_or_numeric(data_type) ==
    IF data_type = None THEN None
    ELSE IF is_character_column(data_type) THEN "a \"character\""
    ELSE IF is_numeric_column(data_type) THEN "a \"numeric\""
    ELSE "neither a character nor a numeric"

\* str(e[0]) of the exception each failing statement raises
QueryError == "query failed"
NoneTypeError == "'NoneType' object has no attribute '__getitem__'"
UnboundLocalError == "local variable 'conn' referenced before assignment"

\* Faulty variant: "and" in place of "or"
params_missing_both(table_name, table_attribute) ==
    table_name = None /\ table_attribute = None

params_missing(table_name, table_attribute) ==
    table_name = None \/ table_attribute = None

ParamsMsg == "The table_name and table_attribute must be specified."

lookup_err_msg(table_name, table_attribute, reason) ==
    "Error finding data type for column '" \o py_str(table_attribute)
        \o "' in table '" \o py_str(table_name) \o "': " \o reason

\* cur.fetchone() for the data_type query
Row(meta, table_name, table_attribute) ==
    IF <<table_name, table_attribute>> \in DOMAIN meta
    THEN meta[<<table_name, table_attribute>>]
    ELSE NoRow

\* get_column_datatype as one call against a datastore in state e
get_column_datatype(e, table_name, table_attribute) ==
    IF params_missing(table_name, table_attribute)
    THEN Return(FALSE, ParamsMsg, <<>>)
    ELSE IF ~e.up
    THEN \* connect raises; the handler's "if conn:" reads the unbound local
         Raise(UnboundLocalError, <<"connect">>)
    ELSE IF ~e.exec
    THEN Return(FALSE, lookup_err_msg(table_name, table_attribute, QueryError),
                <<"connect", "execute", "close">>)
    ELSE IF Row(e.meta, table_name, table_attribute) = NoRow
    THEN Return(FALSE,
                lookup_err_msg(table_name, table_attribute, NoneTypeError),
                <<"connect", "execute", "fetchone", "close">>)
    ELSE Return(TRUE, Row(e.meta, table_name, table_attribute),
                <<"connect", "execute", "fetchone", "close">>)

ConvertMsg == "Error when trying to convert numeric column to character"

\* Postgres reports a varchar(255) column as "character varying"
AlteredType == "character varying"

\* alter_column_to_var as one call: its outcome and the schema it leaves
alter_column_to_var(e, table_name, attr_name) ==
    IF table_name = None
    THEN [out |-> Return(FALSE, "table_name cannot be None", <<>>),
          meta |-> e.meta]
    ELSE IF attr_name = None
    THEN [out |-> Return(FALSE, "attr_name cannot be None", <<>>),
          meta |-> e.meta]
    ELSE IF ~e.up
    THEN \* the handler returns, then finally's conn.close() reads the
         \* unbound local and its exception replaces the return
         [out |-> Raise(UnboundLocalError, <<"connect">>), meta |-> e.meta]
    ELSE IF ~e.exec \/ Row(e.meta, table_name, attr_name) = NoRow
    THEN [out |-> Return(FALSE, ConvertMsg, <<"connect", "execute", "close">>),
          meta |-> e.meta]
    ELSE [out |-> Return(TRUE, None,
                         <<"connect", "execute", "commit", "close">>),
          meta |-> [e.meta EXCEPT ![<<table_name, attr_name>>] = AlteredType]]

\* ------------------------------------------------ the two join checks

TargetUnavailableMsg == "Sorry, the target column is not available."
DtUnavailableMsg == "The data type of your column was not available"

\* A finished call of one of the two checks: the outcome, the
\* get_column_datatype and alter_column_to_var calls it made, in order, and
\* the schema it leaves
Result(out, calls, lookups, alters, meta) ==
    [kind |-> out.kind, ok |-> out.ok, val |-> out.val, ext |-> calls,
     lookups |-> lookups, alters |-> alters, meta |-> meta]

\* Faulty variant: the commented-out clause with the varchar cast
join_clause_cast(self) ==
    py_str(self.target_table) \o ".\"" \o py_str(self.target_attribute)
        \o "\" = " \o py_str(self.dt_table) \o "." \o py_str(self.dt_attribute)
        \o "::varchar(255)"

\* '%s."%s" = %s."%s"' % (target_table, target_attribute, dt_table, dt_attribute)
join_clause(self) ==
    py_str(self.target_table) \o ".\"" \o py_str(self.target_attribute)
        \o "\" = " \o py_str(self.dt_table) \o ".\""
        \o py_str(self.dt_attribute) \o "\""

compatible_err_msg(self, target_data_type, datatable_data_type) ==
    "<br />Your chosen column \"" \o py_str(self.dt_attribute)
        \o "\" is type "
        \o py_str(get_type_text_char_or_numeric(datatable_data_type))
        \o ".  However, the chosen layer column \""
        \o py_str(self.target_attribute) \o "\" is type "
        \o py_str(get_type_text_char_or_numeric(target_data_type))

\* Faulty variant: the two columns change places in the message
join_stmt_err_msg_swapped(self, target_data_type, datatable_data_type) ==
    "<br />Your chosen column \"" \o py_str(self.target_attribute)
        \o "\" is type "
        \o py_str(get_type_text_char_or_numeric(target_data_type))
        \o ".  However, the chosen layer column \""
        \o py_str(self.dt_attribute) \o "\" is type "
        \o py_str(get_type_text_char_or_numeric(datatable_data_type))

join_stmt_err_msg(self, target_data_type, datatable_data_type) ==
    "<br />Your chosen column \"" \o py_str(self.dt_attribute)
        \o "\" is type "
        \o py_str(get_type_text_char_or_numeric(datatable_data_type))
        \o ".  However, the chosen layer column \""
        \o py_str(self.target_attribute) \o "\" is type "
        \o py_str(get_type_text_char_or_numeric(target_data_type))

\* Faulty variant: no equality test before the classification
compatible_verdict_classify_only(self, target_data_type, datatable_data_type) ==
    IF is_character_column(target_data_type)
           /\ is_character_column(datatable_data_type)
    THEN Return(TRUE, None, <<>>)
    ELSE IF is_numeric_column(target_data_type)
           /\ is_numeric_column(datatable_data_type)
    THEN Return(TRUE, None, <<>>)
    ELSE Return(FALSE,
                compatible_err_msg(self, target_data_type, datatable_data_type),
                <<>>)

\* The decision of are_join_columns_compatible once both types are read
compatible_verdict(self, target_data_type, datatable_data_type) ==
    IF target_data_type = datatable_data_type
    THEN Return(TRUE, None, <<>>)
    ELSE IF is_character_column(target_data_type)
           /\ is_character_column(datatable_data_type)
    THEN Return(TRUE, None, <<>>)
    ELSE IF is_numeric_column(target_data_type)
           /\ is_numeric_column(datatable_data_type)
    THEN Return(TRUE, None, <<>>)
    ELSE Return(FALSE,
                compatible_err_msg(self, target_data_type, datatable_data_type),
                <<>>)

are_join_columns_compatible(e, self) ==
    LET target == <<self.target_table, self.target_attribute>>
        dt == <<self.dt_table, self.dt_attribute>>
        r1 == get_column_datatype(e, target[1], target[2])
        r2 == get_column_datatype(e, dt[1], dt[2])
    IN  IF r1.kind = "raise"
        THEN Result(r1, r1.ext, <<target>>, <<>>, e.meta)
        ELSE IF ~r1.ok
        THEN Result(Return(FALSE, TargetUnavailableMsg, <<>>), r1.ext,
                    <<target>>, <<>>, e.meta)
        ELSE IF r2.kind = "raise"
        THEN Result(r2, r1.ext \o r2.ext, <<target, dt>>, <<>>, e.meta)
        ELSE IF ~r2.ok
        THEN Result(Return(FALSE, DtUnavailableMsg, <<>>), r1.ext \o r2.ext,
                    <<target, dt>>, <<>>, e.meta)
        ELSE Result(compatible_verdict(self, r1.val, r2.val),
                    r1.ext \o r2.ext, <<target, dt>>, <<>>, e.meta)

\* Faulty variant: the branch guarded by with_casting, as once written
cast_path_follows_flag(with_casting) == with_casting

\* "if False:   #with_casting:"
cast_path_enabled(with_casting) == FALSE

\* The decision of get_column_join_stmt once both types are read, made
\* against the datastore e (which the cast path would alter)
join_stmt_verdict(e, self, with_casting, target_data_type, datatable_data_type) ==
    IF target_data_type = datatable_data_type
    THEN [out |-> Return(TRUE, join_clause(self), <<>>),
          alters |-> <<>>, meta |-> e.meta]
    ELSE IF is_character_column(target_data_type)
           /\ is_character_column(datatable_data_type)
    THEN [out |-> Return(TRUE, join_clause(self), <<>>),
          alters |-> <<>>, meta |-> e.meta]
    ELSE IF is_numeric_column(target_data_type)
           /\ is_numeric_column(datatable_data_type)
    THEN [out |-> Return(TRUE, join_clause(self), <<>>),
          alters |-> <<>>, meta |-> e.meta]
    ELSE IF cast_path_enabled(with_casting)
           /\ is_character_column(target_data_type)
           /\ is_numeric_column(datatable_data_type)
    THEN LET a == alter_column_to_var(e, self.dt_table, self.dt_attribute)
         IN  [out |-> IF a.out.kind = "raise" THEN a.out
                      ELSE IF a.out.ok
                      THEN Return(TRUE, join_clause(self), a.out.ext)
                      ELSE Return(FALSE, a.out.val, a.out.ext),
              alters |-> << <<self.dt_table, self.dt_attribute>> >>,
              meta |-> a.meta]
    ELSE [out |-> Return(FALSE,
                         join_stmt_err_msg(self, target_data_type,
                                           datatable_data_type), <<>>),
          alters |-> <<>>, meta |-> e.meta]

get_column_join_stmt(e, self, with_casting) ==
    LET target == <<self.target_table, self.target_attribute>>
        dt == <<self.dt_table, self.dt_attribute>>
        r1 == get_column_datatype(e, target[1], target[2])
        r2 == get_column_datatype(e, dt[1], dt[2])
        v == join_stmt_verdict(e, self, with_casting, r1.val, r2.val)
    IN  IF r1.kind = "raise"
        THEN Result(r1, r1.ext, <<target>>, <<>>, e.meta)
        ELSE IF ~r1.ok
        THEN Result(Return(FALSE, TargetUnavailableMsg, <<>>), r1.ext,
                    <<target>>, <<>>, e.meta)
        ELSE IF r2.kind = "raise"
        THEN Result(r2, r1.ext \o r2.ext, <<target, dt>>, <<>>, e.meta)
        ELSE IF ~r2.ok
        THEN Result(Return(FALSE, DtUnavailableMsg, <<>>), r1.ext \o r2.ext,
                    <<target, dt>>, <<>>, e.meta)
        ELSE Result(v.out, r1.ext \o r2.ext \o v.out.ext, <<target, dt>>,
                    v.alters, v.meta)

\* ------------------------------------------------------------ the state

Unbound == "<unbound>"
NoCall == [op |-> "none"]
NoResult == [kind |-> "none"]

Callers == 1 .. NumCallers

Init ==
    /\ env = [up |-> TRUE, exec |-> TRUE,
              meta |-> [r \in ColRefs |-> "integer"]]
    /\ checker = [target_table |-> "parcels", target_attribute |-> "geoid",
                  dt_table |-> "census", dt_attribute |-> "geoid"]
    /\ last = NoCall
    /\ pc = [c \in Callers |-> "idle"]
    /\ args = [c \in Callers |-> NoCall]
    /\ conn = [c \in Callers |-> Unbound]
    /\ exc = [c \in Callers |-> None]
    /\ res = [c \in Callers |-> NoResult]
    /\ ext = [c \in Callers |-> <<>>]
    /\ sessions = {}

\* ------------------------------------- the datastore changes on its own

\* Someone else alters, adds or drops a column
SchemaChange ==
    \E r \in ColRefs, t \in DataTypes \cup {NoRow} :
        /\ env.meta[r] # t
        /\ env' = [env EXCEPT !.meta[r] = t]
        /\ last' = NoCall
        /\ UNCHANGED <<checker, concVars>>

\* The server goes down or comes back; statements start or stop failing
DatastoreChange ==
    /\ \/ env' = [env EXCEPT !.up = ~env.up]
       \/ env' = [env EXCEPT !.exec = ~env.exec]
    /\ last' = NoCall
    /\ UNCHANGED <<checker, concVars>>

\* ------------------------------------------ one caller, whole operations

Construct ==
    \E target_table \in TargetTables \cup {None},
       target_attribute \in AttrNames \cup {None},
       dt_table \in DtTables \cup {None},
       dt_attribute \in AttrNames \cup {None} :
        /\ checker' = [target_table |-> target_table,
                       target_attribute |-> target_attribute,
                       dt_table |-> dt_table,
                       dt_attribute |-> dt_attribute]
        /\ checker' # checker
        /\ last' = NoCall
        /\ UNCHANGED <<env, concVars>>

CallAreJoinColumnsCompatible ==
    LET r == are_join_columns_compatible(env, checker)
    IN  /\ last' = [op |-> "are_join_columns_compatible",
                    with_casting |-> FALSE, before |-> env, out |-> r]
        /\ env' = [env EXCEPT !.meta = r.meta]
        /\ UNCHANGED <<checker, concVars>>

CallGetColumnJoinStmt ==
    \E with_casting \in BOOLEAN :
        LET r == get_column_join_stmt(env, checker, with_casting)
        IN  /\ last' = [op |-> "get_column_join_stmt",
                        with_casting |-> with_casting, before |-> env,
                        out |-> r]
            /\ env' = [env EXCEPT !.meta = r.meta]
            /\ UNCHANGED <<checker, concVars>>

Next ==
    \/ SchemaChange
    \/ DatastoreChange
    \/ Construct
    \/ CallAreJoinColumnsCompatible
    \/ CallGetColumnJoinStmt

Spec == Init /\ [][Next]_vars

\* ------------------------- concurrent callers, one statement at a time

ConnectError == "could not connect to server"

\* A caller enters get_column_datatype or alter_column_to_var; the
\* parameter checks run first and return before the try block
CallArgs ==
    [op : {"get_column_datatype", "alter_column_to_var"},
     table : DtTables \cup {None}, attr : AttrNames \cup {None}]

param_failure(a) ==
    IF a.op = "get_column_datatype"
    THEN IF params_missing(a.table, a.attr)
         THEN Return(FALSE, ParamsMsg, <<>>)
         ELSE NoResult
    ELSE IF a.table = None
         THEN Return(FALSE, "table_name cannot be None", <<>>)
         ELSE IF a.attr = None
         THEN Return(FALSE, "attr_name cannot be None", <<>>)
         ELSE NoResult

Call(c) ==
    \E a \in CallArgs :
        /\ pc[c] = "idle"
        /\ args' = [args EXCEPT ![c] = a]
        /\ conn' = [conn EXCEPT ![c] = Unbound]
        /\ exc' = [exc EXCEPT ![c] = None]
        /\ ext' = [ext EXCEPT ![c] = <<>>]
        /\ res' = [res EXCEPT ![c] = param_failure(a)]
        /\ pc' = [pc EXCEPT ![c] =
                    IF param_failure(a) # NoResult THEN "done" ELSE "connect"]
        /\ UNCHANGED <<env, sessions, seqVars>>

\* conn = psycopg2.connect(...): binds conn, or raises and leaves it unbound
Connect(c) ==
    /\ pc[c] = "connect"
    /\ ext' = [ext EXCEPT ![c] = Append(@, "connect")]
    /\ IF env.up
       THEN /\ conn' = [conn EXCEPT ![c] = "open"]
            /\ sessions' = sessions \cup {c}
            /\ pc' = [pc EXCEPT ![c] = "query"]
            /\ UNCHANGED exc
       ELSE /\ exc' = [exc EXCEPT ![c] = ConnectError]
            /\ pc' = [pc EXCEPT ![c] = "except"]
            /\ UNCHANGED <<conn, sessions>>
    /\ UNCHANGED <<env, args, res, seqVars>>

\* conn.close() as the server sees it
closed_sessions(s, c) == s \ {c}

\* Faulty variant: a handler that does not close the connection
handler_sessions_not_closed(s, c) == s

\* The sessions left by the handler's "if conn: conn.close()"
handler_sessions(s, c) == closed_sessions(s, c)

\* get_column_datatype: execute, fetchone()[0], close, return
GcdQuery(c) ==
    /\ pc[c] = "query"
    /\ args[c].op = "get_column_datatype"
    /\ IF ~env.exec
       THEN /\ ext' = [ext EXCEPT ![c] = Append(@, "execute")]
            /\ exc' = [exc EXCEPT ![c] = QueryError]
            /\ pc' = [pc EXCEPT ![c] = "except"]
            /\ UNCHANGED <<conn, sessions, res>>
       ELSE IF Row(env.meta, args[c].table, args[c].attr) = NoRow
       THEN /\ ext' = [ext EXCEPT ![c] = @ \o <<"execute", "fetchone">>]
            /\ exc' = [exc EXCEPT ![c] = NoneTypeError]
            /\ pc' = [pc EXCEPT ![c] = "except"]
            /\ UNCHANGED <<conn, sessions, res>>
       ELSE /\ ext' = [ext EXCEPT ![c] =
                          @ \o <<"execute", "fetchone", "close">>]
            /\ conn' = [conn EXCEPT ![c] = "closed"]
            /\ sessions' = closed_sessions(sessions, c)
            /\ res' = [res EXCEPT ![c] =
                          Return(TRUE,
                                 Row(env.meta, args[c].table, args[c].attr),
                                 ext'[c])]
            /\ pc' = [pc EXCEPT ![c] = "done"]
            /\ UNCHANGED exc
    /\ UNCHANGED <<env, args, seqVars>>

\* get_column_datatype's handler: "if conn: conn.close()", then the message
GcdExcept(c) ==
    /\ pc[c] = "except"
    /\ args[c].op = "get_column_datatype"
    /\ IF conn[c] = Unbound
       THEN /\ res' = [res EXCEPT ![c] = Raise(UnboundLocalError, ext[c])]
            /\ UNCHANGED <<conn, sessions, ext>>
       ELSE /\ ext' = [ext EXCEPT ![c] = Append(@, "close")]
            /\ conn' = [conn EXCEPT ![c] = "closed"]
            /\ sessions' = handler_sessions(sessions, c)
            /\ res' = [res EXCEPT ![c] =
                          Return(FALSE,
                                 lookup_err_msg(args[c].table, args[c].attr,
                                                exc[c]),
                                 ext'[c])]
    /\ pc' = [pc EXCEPT ![c] = "done"]
    /\ UNCHANGED <<env, args, exc, seqVars>>

\* alter_column_to_var: execute, commit, "return True, None" (held back
\* until the finally block has run)
AlterExecute(c) ==
    /\ pc[c] = "query"
    /\ args[c].op = "alter_column_to_var"
    /\ IF ~env.exec \/ Row(env.meta, args[c].table, args[c].attr) = NoRow
       THEN /\ ext' = [ext EXCEPT ![c] = Append(@, "execute")]
            /\ exc' = [exc EXCEPT ![c] = QueryError]
            /\ pc' = [pc EXCEPT ![c] = "except"]
            /\ UNCHANGED <<env, res>>
       ELSE /\ ext' = [ext EXCEPT ![c] = @ \o <<"execute", "commit">>]
            /\ env' = [env EXCEPT
                          !.meta[<<args[c].table, args[c].attr>>] = AlteredType]
            /\ res' = [res EXCEPT ![c] = Return(TRUE, None, <<>>)]
            /\ pc' = [pc EXCEPT ![c] = "finally"]
            /\ UNCHANGED exc
    /\ UNCHANGED <<args, conn, sessions, seqVars>>

\* alter_column_to_var's handler: log, "return False, <message>"
AlterExcept(c) ==
    /\ pc[c] = "except"
    /\ args[c].op = "alter_column_to_var"
    /\ res' = [res EXCEPT ![c] = Return(FALSE, ConvertMsg, <<>>)]
    /\ pc' = [pc EXCEPT ![c] = "finally"]
    /\ UNCHANGED <<env, args, conn, exc, ext, sessions, seqVars>>

\* alter_column_to_var's "finally: conn.close()"
AlterFinally(c) ==
    /\ pc[c] = "finally"
    /\ IF conn[c] = Unbound
       THEN /\ res' = [res EXCEPT ![c] = Raise(UnboundLocalError, ext[c])]
            /\ UNCHANGED <<conn, sessions, ext>>
       ELSE /\ ext' = [ext EXCEPT ![c] = Append(@, "close")]
            /\ conn' = [conn EXCEPT ![c] = "closed"]
            /\ sessions' = closed_sessions(sessions, c)
            /\ res' = [res EXCEPT ![c] = [@ EXCEPT !.ext = ext'[c]]]
    /\ pc' = [pc EXCEPT ![c] = "done"]
    /\ UNCHANGED <<env, args, exc, seqVars>>

\* The caller has its result (or the exception); the frame is dropped
Finish(c) ==
    /\ pc[c] = "done"
    /\ pc' = [pc EXCEPT ![c] = "idle"]
    /\ args' = [args EXCEPT ![c] = NoCall]
    /\ conn' = [conn EXCEPT ![c] = Unbound]
    /\ exc' = [exc EXCEPT ![c] = None]
    /\ res' = [res EXCEPT ![c] = NoResult]
    /\ ext' = [ext EXCEPT ![c] = <<>>]
    /\ UNCHANGED <<env, sessions, seqVars>>

\* The server goes down or comes back, statements start or stop failing,
\* or the DataTable's column is dropped or recreated
ConcDatastoreChange ==
    /\ \/ env' = [env EXCEPT !.up = ~env.up]
       \/ env' = [env EXCEPT !.exec = ~env.exec]
       \/ \E r \in DtTables \X AttrNames :
              env' = [env EXCEPT !.meta[r] =
                         IF env.meta[r] = NoRow THEN "integer" ELSE NoRow]
    /\ UNCHANGED <<seqVars, concVars>>

NextConc ==
    \/ ConcDatastoreChange
    \/ \E c \in Callers :
          \/ Call(c)
          \/ Connect(c)
          \/ GcdQuery(c)
          \/ GcdExcept(c)
          \/ AlterExecute(c)
          \/ AlterExcept(c)
          \/ AlterFinally(c)
          \/ Finish(c)

SpecConc == Init /\ [][NextConc]_vars

\* ------------------------------------------------------------- properties

\* The last whole operation called and what its two lookups read
LastIsCompatible == last.op = "are_join_columns_compatible"
LastIsJoinStmt == last.op = "get_column_join_stmt"

LastTarget ==
    get_column_datatype(last.before, checker.target_table,
                        checker.target_attribute)

LastDt ==
    get_column_datatype(last.before, checker.dt_table, checker.dt_attribute)

BothRetrieved ==
    /\ LastTarget.kind = "return" /\ LastTarget.ok
    /\ LastDt.kind = "return" /\ LastDt.ok

\* The two fixed sets, as the specification lists them
SpecCharacterSet ==
    {"character varying", "varchar", "character", "char", "text"}

SpecNumericSet ==
    {"smallint", "integer", "bigint", "decimal", "numeric", "real",
     "double precision", "smallserial", "serial", "bigserial"}

SpecLabel(t) ==
    IF t \in SpecCharacterSet THEN "a \"character\""
    ELSE IF t \in SpecNumericSet THEN "a \"numeric\""
    ELSE "neither a character nor a numeric"

Contains(s, sub) ==
    \E i \in 1 .. (Len(s) - Len(sub) + 1) :
        SubSeq(s, i, i + Len(sub) - 1) = sub

\* C1: when both lookups succeed and both types are in the character set,
\* or both are in the numeric set, are_join_columns_compatible returns
\* (True, None), whichever two spellings the types have.
C1_SameClassCompatible ==
    (/\ LastIsCompatible
     /\ BothRetrieved
     /\ \/ LastTarget.val \in SpecCharacterSet
           /\ LastDt.val \in SpecCharacterSet
        \/ LastTarget.val \in SpecNumericSet
           /\ LastDt.val \in SpecNumericSet)
    => /\ last.out.kind = "return"
       /\ last.out.ok = TRUE
       /\ last.out.val = None

C1_Witness ==
    /\ LastIsCompatible
    /\ BothRetrieved
    /\ LastTarget.val = "text"
    /\ LastDt.val = "character varying"
    /\ last.out.ok = TRUE

\* C2: when both lookups succeed and the two raw types are equal,
\* are_join_columns_compatible returns (True, None) whatever the type is,
\* a type in neither set included.
C2_EqualTypesCompatible ==
    (/\ LastIsCompatible
     /\ BothRetrieved
     /\ LastTarget.val = LastDt.val)
    => /\ last.out.kind = "return"
       /\ last.out.ok = TRUE
       /\ last.out.val = None

C2_Witness ==
    /\ LastIsCompatible
    /\ BothRetrieved
    /\ LastTarget.val = "uuid"
    /\ LastDt.val = "uuid"
    /\ last.out.ok = TRUE

\* C3: when both lookups succeed with two different type strings that are
\* not both character and not both numeric, are_join_columns_compatible
\* returns (False, message): not a lookup failure, not success, and the
\* message names the DataTable column with its label and the layer column
\* with its label, each label one of the three fixed texts.
C3_MixedTypesIncompatible ==
    (/\ LastIsCompatible
     /\ BothRetrieved
     /\ LastTarget.val # None
     /\ LastDt.val # None
     /\ LastTarget.val # LastDt.val
     /\ ~(LastTarget.val \in SpecCharacterSet
          /\ LastDt.val \in SpecCharacterSet)
     /\ ~(LastTarget.val \in SpecNumericSet
          /\ LastDt.val \in SpecNumericSet))
    => /\ last.out.kind = "return"
       /\ last.out.ok = FALSE
       /\ last.out.val \notin {TargetUnavailableMsg, DtUnavailableMsg}
       /\ last.out.val =
              "<br />Your chosen column \"" \o checker.dt_attribute
                  \o "\" is type " \o SpecLabel(LastDt.val)
                  \o ".  However, the chosen layer column \""
                  \o checker.target_attribute \o "\" is type "
                  \o SpecLabel(LastTarget.val)

C3_Witness ==
    /\ LastIsCompatible
    /\ BothRetrieved
    /\ LastTarget.val = "text"
    /\ LastDt.val = "uuid"
    /\ last.out.ok = FALSE
    /\ Contains(last.out.val, "neither a character nor a numeric")
    /\ Contains(last.out.val, "a \"character\"")

\* A lookup that was made and found no type: no row, or a row whose
\* data_type is NULL
AbsentType(e, table_name, table_attribute) ==
    /\ table_name # None /\ table_attribute # None
    /\ e.up /\ e.exec
    /\ e.meta[<<table_name, table_attribute>>] \in {NoRow, None}

PresentType(e, table_name, table_attribute) ==
    /\ table_name # None /\ table_attribute # None
    /\ e.up /\ e.exec
    /\ e.meta[<<table_name, table_attribute>>] \notin {NoRow, None}

\* C4: an absent type on either side makes are_join_columns_compatible
\* return a lookup failure: for the target, the fixed target message with
\* no lookup of the DataTable column; for the DataTable column, the fixed
\* "data type of your column" message.
C4_AbsentTypeIsLookupFailure ==
    LastIsCompatible =>
        /\ AbsentType(last.before, checker.target_table,
                      checker.target_attribute)
           => /\ last.out.kind = "return"
              /\ last.out.ok = FALSE
              /\ last.out.val = TargetUnavailableMsg
              /\ last.out.lookups =
                     << <<checker.target_table, checker.target_attribute>> >>
        /\ (/\ PresentType(last.before, checker.target_table,
                           checker.target_attribute)
            /\ AbsentType(last.before, checker.dt_table,
                          checker.dt_attribute))
           => /\ last.out.kind = "return"
              /\ last.out.ok = FALSE
              /\ last.out.val = DtUnavailableMsg

C6_JoinClauseShape ==
    (LastIsJoinStmt /\ last.out.kind = "return" /\ last.out.ok)
    => /\ BothRetrieved
       /\ \/ LastTarget.val = LastDt.val
          \/ LastTarget.val \in SpecCharacterSet
             /\ LastDt.val \in SpecCharacterSet
          \/ LastTarget.val \in SpecNumericSet
             /\ LastDt.val \in SpecNumericSet
       /\ last.out.val =
              checker.target_table \o ".\"" \o checker.target_attribute
                  \o "\" = " \o checker.dt_table \o ".\""
                  \o checker.dt_attribute \o "\""
       /\ (checker = [target_table |-> "parcels",
                      target_attribute |-> "geoid",
                      dt_table |-> "census", dt_attribute |-> "geoid"])
          => last.out.val = "parcels.\"geoid\" = census.\"geoid\""

C6_Witness ==
    /\ LastIsJoinStmt
    /\ last.out.ok
    /\ LastTarget.val = "integer"
    /\ LastDt.val = "bigint"
    /\ last.out.val = "parcels.\"geoid\" = census.\"geoid\""

\* C10: on the same checker and datastore, get_column_join_stmt and
\* are_join_columns_compatible make the same lookups in the same order and
\* the same calls on the datastore, end the same way with the same success
\* flag, and on failure return the same message; on success one returns the
\* join clause and the other None.
SameButPayload(join, compat) ==
    /\ join.lookups = compat.lookups
    /\ join.ext = compat.ext
    /\ join.kind = compat.kind
    /\ join.ok = compat.ok
    /\ ~join.ok => join.val = compat.val
    /\ join.ok => (compat.val = None /\ join.val # None)

C7_MissingParameterNoExternalCall ==
    \A c \in Callers :
        (pc[c] # "idle" /\ (args[c].table = None \/ args[c].attr = None))
        => /\ pc[c] = "done"
           /\ res[c].kind = "return"
           /\ res[c].ok = FALSE
           /\ res[c].val =
                  IF args[c].op = "get_column_datatype"
                  THEN "The table_name and table_attribute must be specified."
                  ELSE IF args[c].table = None
                  THEN "table_name cannot be None"
                  ELSE "attr_name cannot be None"
           /\ res[c].ext = <<>>
           /\ ext[c] = <<>>
           /\ conn[c] = Unbound
           /\ c \notin sessions

C7_Witness ==
    \E c \in Callers :
        /\ pc[c] = "done"
        /\ args[c].op = "alter_column_to_var"
        /\ args[c].table = None
        /\ args[c].attr = "geoid"
        /\ res[c].val = "table_name cannot be None"
        /\ ext[c] = <<>>

\* C8: every failure is returned and none is raised: a finished call of
\* get_column_datatype that failed returns (False, message) with a
\* message naming the column and the table, a finished call of
\* alter_column_to_var that failed returns (False, generic message), a
\* failed connection attempt included.
C8_FailuresAreReturned ==
    \A c \in Callers :
        pc[c] = "done" =>
            /\ res[c].kind = "return"
            /\ (/\ ~res[c].ok
                /\ args[c].table # None /\ args[c].attr # None)
               => IF args[c].op = "get_column_datatype"
                  THEN /\ Contains(res[c].val,
                                   "column '" \o args[c].attr \o "'")
                       /\ Contains(res[c].val,
                                   "table '" \o args[c].table \o "'")
                  ELSE res[c].val = ConvertMsg

\* C9: a call that has ended holds no open connection, a call between its
\* connect and its close still has the connection it opened, the open
\* connections are exactly those of the calls holding one, and when all
\* calls have ended none is open.
C9_ConnectionsReleased ==
    /\ \A c \in Callers :
          /\ pc[c] \in {"idle", "done"} => c \notin sessions
          /\ pc[c] = "query" => (conn[c] = "open" /\ c \in sessions)
    /\ sessions = {c \in Callers : conn[c] = "open"}
    /\ (\A c \in Callers : pc[c] \in {"idle", "done"}) => sessions = {}

C9_Witness ==
    \E c, d \in Callers :
        /\ c # d
        /\ pc[c] = "done"
        /\ args[c].op = "get_column_datatype"
        /\ conn[c] = "closed"
        /\ res[c].ok = FALSE
        /\ d \in sessions

====
